---- MODULE Spec2Model ----
(***************************************************************************)
(* Model of kobold-swap.py: discovery of .kcpps files, synthesis of        *)
(* config.yaml and supervision of the llama-swap child process.            *)
(*                                                                         *)
(* Strings are sequences of tokens.  A file name is a sequence over        *)
(* Alphabet; the token ".kcpps" stands for the six characters of the       *)
(* extension, every other token for one character without a dot.           *)
(***************************************************************************)
EXTENDS Integers, Sequences, FiniteSets, TLC

\* ---------------------------------------------------------------- bounds
MaxNameLen == 2
MaxFiles == 2
MaxRuns == 2

\* ------------------------------------------------------------ file names
Alphabet == {"a", ".kcpps"}

FileNames == UNION {[1..n -> Alphabet] : n \in 1..MaxNameLen}

Directories == {d \in SUBSET FileNames : Cardinality(d) <= MaxFiles}

\* Path.glob("*.kcpps"): the name ends with the extension ("*" also matches
\* the empty prefix, so the dot-file ".kcpps" matches).
GlobMatch(name) == name[Len(name)] = ".kcpps"

\* name.rfind('.'): 1-based index of the token holding the last dot, 0 if none.
LastDot(name) ==
    LET dots == {i \in 1..Len(name) : name[i] = ".kcpps"}
    IN IF dots = {} THEN 0 ELSE CHOOSE i \in dots : \A j \in dots : j <= i

\* Path.stem: the name up to the last dot, unless that dot starts the name.
extract_filename(file_path) ==
    LET i == LastDot(file_path)
    IN IF i > 1 THEN SubSeq(file_path, 1, i - 1) ELSE file_path

\* All orderings of a finite set (the enumeration order of glob is unspecified).
RECURSIVE Orderings(_)
Orderings(S) ==
    IF S = {} THEN {<<>>}
    ELSE UNION {{<<x>> \o s : s \in Orderings(S \ {x})} : x \in S}

\* The lists find_kcpps_files may return.
find_kcpps_files(exists, entries) ==
    IF ~exists THEN {<<>>}
    ELSE Orderings({n \in entries : GlobMatch(n)})

\* ------------------------------------------------------- config synthesis
KeyPrefix == <<"koboldcpp/">>
CmdPrefix == <<"kcpp-extracted/koboldcpp-launcher", " --config ", "configs/">>
CmdMiddle == <<".kcpps", " --port ", "${PORT}", " --hordemodelname ">>

\* A dict is the sequence of its <<key, value>> pairs in insertion order.
DictKeys(d) == [i \in 1..Len(d) |-> d[i][1]]

DictSet(d, k, v) ==
    IF \E i \in 1..Len(d) : d[i][1] = k
    THEN [i \in 1..Len(d) |-> IF d[i][1] = k THEN <<k, v>> ELSE d[i]]
    ELSE Append(d, <<k, v>>)

RECURSIVE DictUpdateN(_, _, _)
DictUpdateN(d, e, n) ==
    IF n = 0 THEN d
    ELSE DictSet(DictUpdateN(d, e, n - 1), e[n][1], e[n][2])

\* dict.update(e)
DictUpdate(d, e) == DictUpdateN(d, e, Len(e))

generate_config_entry(filename) ==
    << << KeyPrefix \o filename,
          << <<"cmd", CmdPrefix \o filename \o CmdMiddle \o filename>>,
             <<"checkEndpoint", <<"/ping">> >> >> >> >>

RECURSIVE BuildModelsN(_, _)
BuildModelsN(kfiles, n) ==
    IF n = 0 THEN <<>>
    ELSE DictUpdate(BuildModelsN(kfiles, n - 1),
                    generate_config_entry(extract_filename(kfiles[n])))

\* The loop of generate_config_yaml over the discovered files.
BuildModels(kfiles) == BuildModelsN(kfiles, Len(kfiles))

BuildConfig(kfiles) == << <<"models", BuildModels(kfiles)>> >>

RECURSIVE Flatten(_)
Flatten(ss) == IF ss = <<>> THEN <<>> ELSE Head(ss) \o Flatten(Tail(ss))

\* yaml.dump(config, default_flow_style=False, sort_keys=False), as lines.
DumpEntry(e) ==
    << <<"  ">> \o e[1] \o <<":">> >>
    \o [i \in 1..Len(e[2]) |-> <<"    ", e[2][i][1], ": ">> \o e[2][i][2]]

Dump(cfg) ==
    Flatten([i \in 1..Len(cfg) |->
        << <<cfg[i][1], ":">> >>
        \o Flatten([j \in 1..Len(cfg[i][2]) |-> DumpEntry(cfg[i][2][j])])])

NoFile == [exists |-> FALSE, lines |-> <<>>]

\* A config.yaml left by some earlier use, unrelated to the current files.
StaleContent ==
    [exists |-> TRUE,
     lines |-> << <<"models", ":">>, <<"  ", "koboldcpp/", "z", ":">>,
                  <<"    ", "cmd", ": ", "z">> >>]

\* Mutant: the file is opened for appending.
WriteFile_Append(old, lines) == [exists |-> TRUE, lines |-> old.lines \o lines]

\* open(output_file, 'w') followed by a complete dump.
WriteFile(old, lines) == [exists |-> TRUE, lines |-> lines]

IoOutcomes == {"ok", "open_failed", "write_failed"}

\* The results generate_config_yaml may produce: its return value, the
\* structure it built and the file it leaves behind.
generate_config_yaml(kfiles, old, io) ==
    IF kfiles = <<>>
    THEN {[ret |-> FALSE, cfg |-> <<>>, file |-> old]}
    ELSE LET cfg == BuildConfig(kfiles)
             lines == Dump(cfg)
         IN CASE io = "ok" ->
                   {[ret |-> TRUE, cfg |-> cfg, file |-> WriteFile(old, lines)]}
              [] io = "open_failed" ->
                   {[ret |-> FALSE, cfg |-> cfg, file |-> old]}
              [] OTHER ->
                   {[ret |-> FALSE, cfg |-> cfg,
                     file |-> [exists |-> TRUE, lines |-> SubSeq(lines, 1, k)]]
                    : k \in 0..(Len(lines) - 1)}

\* ------------------------------------------------------------------ state
VARIABLES
    fs_configs,      \* the entry 'configs' exists
    dir,             \* names of the files inside 'configs'
    fs_marker,       \* the directory 'kcpp-extracted' exists
    configYaml,      \* content of config.yaml
    pc,              \* position of main()
    kcpps_files,     \* main's local: the discovered files
    config,          \* the structure generate_config_yaml built
    success,         \* main's local: "unset", "true" or "false"
    handle,          \* llama_swap_process: "unset", "None" or "Popen"
    exitCode,        \* exit status of the program, -1 while it runs
    child,           \* the proxy process: "none", "running", "exited"
    unpackProc,      \* the extraction process: "none", "running", "completed"
    sup,             \* state of the Process Supervisor
    run,             \* number of the current run
    noConfigsAtStart,\* this run found no 'configs' entry
    yamlAtStart,     \* content of config.yaml when this run started
    ioResult,        \* outcome of the write of this run, "none" before it
    discovered,      \* discovery has run in this run
    unpackCount,     \* extraction invocations of this run
    interrupts,      \* interrupts delivered in this run
    termRequests,    \* termination requests sent in this run
    prevFiles        \* files of the preceding run, if it wrote config.yaml

vars == <<fs_configs, dir, fs_marker, configYaml, pc, kcpps_files, config,
          success, handle, exitCode, child, unpackProc, sup, run,
          noConfigsAtStart, yamlAtStart, ioResult, discovered, unpackCount,
          interrupts, termRequests, prevFiles>>

fsVars == <<fs_configs, dir, fs_marker, configYaml>>
procVars == <<child, unpackProc>>
synthVars == <<kcpps_files, config, success, ioResult, discovered, prevFiles>>
supVars == <<handle, sup, interrupts, termRequests>>
runVars == <<run, noConfigsAtStart, yamlAtStart, unpackCount>>

Init ==
    /\ fs_configs \in BOOLEAN
    /\ dir \in (IF fs_configs THEN Directories ELSE {{}})
    /\ fs_marker \in BOOLEAN
    /\ configYaml \in {NoFile, StaleContent}
    /\ pc = "start"
    /\ kcpps_files = <<>>
    /\ config = <<>>
    /\ success = "unset"
    /\ handle = "unset"
    /\ exitCode = -1
    /\ child = "none"
    /\ unpackProc = "none"
    /\ sup = "NotStarted"
    /\ run = 1
    /\ noConfigsAtStart = FALSE
    /\ yamlAtStart = configYaml
    /\ ioResult = "none"
    /\ discovered = FALSE
    /\ unpackCount = 0
    /\ interrupts = 0
    /\ termRequests = 0
    /\ prevFiles = <<>>

\* Exit status of the interpreter for SystemExit(arg): 0 for None, the
\* number for an integer, 1 for any other object (it is printed to stderr).
SystemExitStatus(arg) ==
    CASE arg = <<"None">> -> 0
      [] arg[1] = "int" -> arg[2]
      [] OTHER -> 1

\* ---------------------------------------------------------------- main()
\* Lines 148-151: the configs check, makedirs and quit("").
MainStart ==
    /\ pc = "start"
    /\ IF ~fs_configs
       THEN /\ fs_configs' = TRUE
            /\ noConfigsAtStart' = TRUE
            /\ pc' = "exited"
            /\ exitCode' = SystemExitStatus(<<"str", "">>)
       ELSE /\ pc' = "check_extracted"
            /\ UNCHANGED <<fs_configs, noConfigsAtStart, exitCode>>
    /\ UNCHANGED <<dir, fs_marker, configYaml, procVars, synthVars, supVars,
                   run, yamlAtStart, unpackCount>>

\* Lines 154-156: subprocess.run starts the extraction, or raises OSError
\* (the executable cannot be started), which nothing catches.
MainCheckExtracted ==
    /\ pc = "check_extracted"
    /\ IF fs_marker
       THEN /\ pc' = "discover"
            /\ UNCHANGED <<unpackProc, unpackCount, exitCode>>
       ELSE \E started \in BOOLEAN :
              IF started
              THEN /\ unpackProc' = "running"
                   /\ unpackCount' = unpackCount + 1
                   /\ pc' = "unpacking"
                   /\ UNCHANGED exitCode
              ELSE /\ pc' = "exited"
                   /\ exitCode' = 1
                   /\ UNCHANGED <<unpackProc, unpackCount>>
    /\ UNCHANGED <<fsVars, child, synthVars, supVars, run, noConfigsAtStart,
                   yamlAtStart>>

\* Mutant: the extraction's exit status is checked (check=True).
AfterUnpack_Checked(status) ==
    IF status = 0
    THEN pc' = "discover" /\ exitCode' = exitCode
    ELSE pc' = "exited" /\ exitCode' = 1

\* Line 156: the CompletedProcess is discarded.
AfterUnpack(status) == pc' = "discover" /\ exitCode' = exitCode

\* The extraction process ends with some status; it may or may not have
\* created the marker directory.
UnpackCompletes ==
    /\ pc = "unpacking"
    /\ unpackProc = "running"
    /\ \E status \in 0..1, created \in BOOLEAN :
         /\ fs_marker' = (fs_marker \/ created)
         /\ AfterUnpack(status)
    /\ unpackProc' = "completed"
    /\ UNCHANGED <<fs_configs, dir, configYaml, child, synthVars, supVars,
                   runVars>>

\* Mutant: the empty result is not checked.
MainAfterDiscover_NoCheck(kfiles) ==
    pc' = "generate" /\ exitCode' = exitCode

\* Lines 161-163.
MainAfterDiscover(kfiles) ==
    IF kfiles = <<>>
    THEN pc' = "exited" /\ exitCode' = 0
    ELSE pc' = "generate" /\ exitCode' = exitCode

\* Line 159.
MainDiscover ==
    /\ pc = "discover"
    /\ \E kfiles \in find_kcpps_files(fs_configs, dir) :
         /\ kcpps_files' = kfiles
         /\ MainAfterDiscover(kfiles)
    /\ discovered' = TRUE
    /\ UNCHANGED <<fsVars, procVars, config, success, ioResult, prevFiles,
                   supVars, runVars>>

\* Mutant: the failure is reported but the run goes on.
MainAfterGenerate_NoExit(ret) ==
    pc' = "locate" /\ exitCode' = exitCode

\* Lines 168-185.
MainAfterGenerate(ret) ==
    IF ret
    THEN pc' = "locate" /\ exitCode' = exitCode
    ELSE pc' = "exited" /\ exitCode' = 1

\* Line 166.
MainGenerate ==
    /\ pc = "generate"
    /\ \E io \in IoOutcomes :
       \E r \in generate_config_yaml(kcpps_files, configYaml, io) :
         /\ ioResult' = (IF kcpps_files = <<>> THEN "none" ELSE io)
         /\ configYaml' = r.file
         /\ config' = r.cfg
         /\ success' = (IF r.ret THEN "true" ELSE "false")
         /\ MainAfterGenerate(r.ret)
    /\ UNCHANGED <<fs_configs, dir, fs_marker, procVars, kcpps_files,
                   discovered, prevFiles, supVars, runVars>>

\* ---------------------------------------------------- launch_llama_swap()
\* Lines 121-133: the executable next to the script exists or not.
LaunchLocate ==
    /\ pc = "locate"
    /\ \E present \in BOOLEAN :
         IF present
         THEN /\ sup' = "Located"
              /\ pc' = "spawn"
              /\ UNCHANGED <<handle, exitCode>>
         ELSE /\ sup' = "MissingExecutable"
              /\ handle' = "None"
              /\ pc' = "exited"
              /\ exitCode' = 0
    /\ UNCHANGED <<fsVars, procVars, synthVars, interrupts, termRequests,
                   runVars>>

\* Mutant: the spawn error is not caught.
SpawnFailed_Uncaught ==
    /\ sup' = "LaunchFailed"
    /\ handle' = "unset"
    /\ pc' = "exited"
    /\ exitCode' = 1
    /\ UNCHANGED child

\* Lines 137-139 and 174: the error is reported, None is returned.
SpawnFailed ==
    /\ sup' = "LaunchFailed"
    /\ handle' = "None"
    /\ pc' = "exited"
    /\ exitCode' = 0
    /\ UNCHANGED child

\* Lines 134-135 and 174-178.
LaunchSpawn ==
    /\ pc = "spawn"
    /\ \/ /\ child' = "running"
          /\ handle' = "Popen"
          /\ sup' = "Running"
          /\ pc' = "waiting"
          /\ UNCHANGED exitCode
       \/ SpawnFailed
    /\ UNCHANGED <<fsVars, unpackProc, synthVars, interrupts, termRequests,
                   runVars>>

\* The proxy ends, by itself or after a termination request.
ChildExits ==
    /\ child = "running"
    /\ child' = "exited"
    /\ UNCHANGED <<fsVars, pc, exitCode, unpackProc, synthVars, supVars,
                   runVars>>

\* Mutant: the child is terminated in a finally clause.
NormalExit_Finally ==
    /\ sup' = "Exited"
    /\ termRequests' = termRequests + 1

\* Line 178 returns: nothing is sent to the child.
NormalExit ==
    /\ sup' = "Exited"
    /\ termRequests' = termRequests

\* Line 178: wait() returns once the child has exited.
WaitReturns ==
    /\ pc = "waiting"
    /\ child = "exited"
    /\ NormalExit
    /\ pc' = "exited"
    /\ exitCode' = 0
    /\ UNCHANGED <<fsVars, procVars, synthVars, handle, interrupts, runVars>>

\* Lines 179-180: KeyboardInterrupt during the first wait.
Interrupt ==
    /\ pc = "waiting"
    /\ interrupts' = interrupts + 1
    /\ sup' = "Interrupted"
    /\ pc' = "interrupted"
    /\ UNCHANGED <<fsVars, procVars, synthVars, handle, termRequests,
                   exitCode, runVars>>

\* Line 181.
RequestTermination ==
    /\ termRequests' = termRequests + 1
    /\ sup' = "Terminating"

Terminate ==
    /\ pc = "interrupted"
    /\ RequestTermination
    /\ pc' = "terminating"
    /\ UNCHANGED <<fsVars, procVars, synthVars, handle, interrupts,
                   exitCode, runVars>>

\* Line 182: the second wait returns.
WaitAfterTerminate ==
    /\ pc = "terminating"
    /\ child = "exited"
    /\ sup' = "Exited"
    /\ pc' = "exited"
    /\ exitCode' = 0
    /\ UNCHANGED <<fsVars, procVars, synthVars, handle, interrupts,
                   termRequests, runVars>>

\* Line 182 is outside the try block: a KeyboardInterrupt raised there
\* leaves main() and ends the program.
InterruptDuringShutdown ==
    /\ pc = "terminating"
    /\ interrupts' = interrupts + 1
    /\ pc' = "exited"
    /\ exitCode' = 130
    /\ UNCHANGED <<fsVars, procVars, synthVars, handle, sup, termRequests,
                   runVars>>

\* The program is started again in the same working directory.
Restart ==
    /\ pc = "exited"
    /\ run < MaxRuns
    /\ run' = run + 1
    /\ pc' = "start"
    /\ kcpps_files' = <<>>
    /\ config' = <<>>
    /\ success' = "unset"
    /\ handle' = "unset"
    /\ exitCode' = -1
    /\ child' = "none"
    /\ unpackProc' = "none"
    /\ sup' = "NotStarted"
    /\ noConfigsAtStart' = FALSE
    /\ yamlAtStart' = configYaml
    /\ ioResult' = "none"
    /\ discovered' = FALSE
    /\ unpackCount' = 0
    /\ interrupts' = 0
    /\ termRequests' = 0
    /\ prevFiles' = (IF ioResult = "ok" THEN kcpps_files ELSE <<>>)
    /\ UNCHANGED fsVars

Next ==
    \/ MainStart
    \/ MainCheckExtracted
    \/ UnpackCompletes
    \/ MainDiscover
    \/ MainGenerate
    \/ LaunchLocate
    \/ LaunchSpawn
    \/ ChildExits
    \/ WaitReturns
    \/ Interrupt
    \/ Terminate
    \/ WaitAfterTerminate
    \/ InterruptDuringShutdown
    \/ Restart

Spec == Init /\ [][Next]_vars

\* ----------------------------------------------------------------- claims
Identifiers(kfiles) == [i \in 1..Len(kfiles) |-> extract_filename(kfiles[i])]

Matching(entries) == {n \in entries : GlobMatch(n)}

Range(s) == {s[i] : i \in 1..Len(s)}

\* The identifier of an entry: its key without the namespace prefix.
EntryId(e) == SubSeq(e[1], Len(KeyPrefix) + 1, Len(e[1]))

Contains(s, t) ==
    \E p \in 1..(Len(s) - Len(t) + 1) : SubSeq(s, p, p + Len(t) - 1) = t

\* C1: a run started without a 'configs' entry creates it and ends with
\* exit status 0, without writing config.yaml, without running the
\* extraction and without spawning the proxy.
C1_SetupIncompleteSucceeds ==
    (pc = "exited" /\ noConfigsAtStart) =>
        /\ fs_configs
        /\ exitCode = 0
        /\ configYaml = yamlAtStart
        /\ unpackCount = 0
        /\ child = "none"
        /\ handle = "unset"

\* C2: every interrupt delivered during a wait on the child leads to a
\* termination request, and the program never exits before the spawned
\* child has exited.
C2_GracefulShutdown ==
    /\ (interrupts > 0 /\ pc \in {"terminating", "exited"}) => termRequests >= 1
    /\ (pc = "exited" /\ handle = "Popen") => child = "exited"

\* C3: when writing config.yaml fails for a non-empty file list,
\* generate_config_yaml returns False and the run ends with a non-zero
\* exit status without locating or spawning the proxy.
C3_WriteFailure ==
    (ioResult \in {"open_failed", "write_failed"}) =>
        /\ kcpps_files # <<>>
        /\ success = "false"
        /\ pc = "exited"
        /\ exitCode \notin {-1, 0}
        /\ sup = "NotStarted"
        /\ handle = "unset"
        /\ child = "none"

C3_Witness ==
    /\ ioResult = "write_failed"
    /\ pc = "exited"
    /\ Len(kcpps_files) >= 1

\* C4: when 'configs' exists and holds no .kcpps file, the run ends with
\* exit status 0, config.yaml keeps the content it had when the run
\* started, and the proxy is never spawned.
C4_NoInput ==
    (discovered /\ fs_configs /\ Matching(dir) = {}) =>
        /\ pc = "exited"
        /\ exitCode = 0
        /\ configYaml = yamlAtStart
        /\ ioResult = "none"
        /\ sup = "NotStarted"
        /\ handle = "unset"
        /\ child = "none"

C4_Witness ==
    /\ discovered
    /\ dir # {}
    /\ Matching(dir) = {}
    /\ yamlAtStart = StaleContent
    /\ pc = "exited"

\* C5: when config.yaml was written and the proxy executable is absent or
\* cannot be spawned, launch_llama_swap returns None, no child is waited on
\* or terminated, config.yaml stays as written and the run ends with exit
\* status 0; both cases end the run the same way.
C5_ProxyUnavailable ==
    (sup \in {"MissingExecutable", "LaunchFailed"}) =>
        /\ ioResult = "ok"
        /\ handle = "None"
        /\ child = "none"
        /\ interrupts = 0
        /\ termRequests = 0
        /\ configYaml = [exists |-> TRUE, lines |-> Dump(config)]
        /\ pc = "exited"
        /\ exitCode = 0

C5_Witness ==
    /\ sup = "LaunchFailed"
    /\ pc = "exited"
    /\ ioResult = "ok"

\* C6: the written mapping has the single key 'models'; its keys are
\* 'koboldcpp/<identifier>' of the discovered files, in discovery order;
\* every entry has exactly the keys 'cmd' and 'checkEndpoint', with
\* checkEndpoint '/ping' and cmd referencing 'configs/<identifier>.kcpps'.
C6_OrderAndShape ==
    (ioResult = "ok") =>
        /\ DictKeys(config) = <<"models">>
        /\ DictKeys(config[1][2]) =
              [i \in 1..Len(kcpps_files) |->
                  KeyPrefix \o extract_filename(kcpps_files[i])]
        /\ \A i \in 1..Len(config[1][2]) :
              LET e == config[1][2][i]
              IN /\ DictKeys(e[2]) = <<"cmd", "checkEndpoint">>
                 /\ e[2][2][2] = <<"/ping">>
                 /\ Contains(e[2][1][2],
                             <<"configs/">> \o EntryId(e) \o <<".kcpps">>)

\* C7: for N discovered identifiers the mapping has exactly N entries, and
\* each command holds its identifier in the --config path and as the
\* --hordemodelname value, with the token ${PORT} unexpanded.
C7_MappingShape ==
    (ioResult = "ok") =>
        /\ Len(config[1][2]) = Len(kcpps_files)
        /\ \A i \in 1..Len(config[1][2]) :
              LET e == config[1][2][i]
              IN /\ e[2][1][2] =
                      CmdPrefix \o EntryId(e) \o CmdMiddle \o EntryId(e)
                 /\ "${PORT}" \in Range(e[2][1][2])

\* C8: after a successful synthesis config.yaml is exactly the dump of the
\* mapping of the current files, whatever it held before, and a synthesis
\* that follows one of the same identifier sequence leaves the file as it
\* found it.
C8_OverwriteNotMerge ==
    (ioResult = "ok") =>
        /\ configYaml =
              [exists |-> TRUE, lines |-> Dump(BuildConfig(kcpps_files))]
        /\ (prevFiles # <<>>
              /\ Identifiers(prevFiles) = Identifiers(kcpps_files))
              => configYaml = yamlAtStart

C8_Witness ==
    /\ ioResult = "ok"
    /\ yamlAtStart = StaleContent
    /\ Len(kcpps_files) = 2

\* The idempotent case of C8: the preceding run wrote the same files.
C8_SameInputTwice ==
    /\ ioResult = "ok"
    /\ prevFiles = kcpps_files
    /\ Len(kcpps_files) = 2

ClaimedTransitions ==
    { <<"NotStarted", "Located">>, <<"NotStarted", "MissingExecutable">>,
      <<"Located", "Running">>, <<"Running", "Exited">>,
      <<"Running", "Interrupted">>, <<"Interrupted", "Terminating">>,
      <<"Terminating", "Exited">> }

SupervisorStep(transitions) ==
    (run' = run) =>
        /\ sup' = sup \/ <<sup, sup'>> \in transitions
        /\ (termRequests' # termRequests) =>
              (sup = "Interrupted" /\ termRequests = 0)

\* C9 as stated: within a run the supervisor only takes the transitions
\* NotStarted -> Located | MissingExecutable, Located -> Running,
\* Running -> Exited, Running -> Interrupted -> Terminating -> Exited.
C9_StateMachine_AsStated ==
    [][SupervisorStep(ClaimedTransitions)]_vars

\* C9 amended: the supervisor takes only the stated transitions or
\* Located -> LaunchFailed; termination is requested only from Interrupted
\* and at most once; Exited is entered only when the child has exited.
C9_StateMachine ==
    /\ []((sup = "Exited") => (child = "exited" /\ pc = "exited"))
    /\ [][SupervisorStep(ClaimedTransitions \cup {<<"Located", "LaunchFailed">>})]_vars

C9_Witness ==
    /\ sup = "Exited"
    /\ interrupts = 1
    /\ termRequests = 1

\* C10: the extraction is invoked at most once per run and only when the
\* marker directory is absent; it has completed before the proxy is
\* spawned; whatever its exit status and whether or not it created the
\* marker, the run goes on to discovery with nothing else changed.
C10_ExtractionOnce ==
    /\ [](/\ unpackCount <= 1
          /\ (unpackProc = "running") => (pc = "unpacking" /\ child = "none")
          /\ (child # "none") => (unpackProc # "running"))
    /\ [][/\ (unpackCount' > unpackCount) => ~fs_marker
          /\ (unpackProc = "running" /\ unpackProc' # "running") =>
                /\ unpackProc' = "completed"
                /\ pc' = "discover"
                /\ exitCode' = exitCode
                /\ UNCHANGED <<fs_configs, dir, configYaml, kcpps_files,
                               sup, child>>]_vars

C10_Witness ==
    /\ unpackProc = "completed"
    /\ ~fs_marker
    /\ child = "running"

====
